---- MODULE Spec2Model ----
(***************************************************************************)
(* Progress reconciliation of the LingoPal backend.                        *)
(*                                                                         *)
(* Three request handlers write per-user progress records:                 *)
(*   POST /api/practice/progress   src/src/Routes/practice.js:152-235      *)
(*   POST /api/course/progress     src/src/Routes/mail.js:460-538          *)
(*   POST /api/course/progress     src/src/Routes/mail.js:270-305 (older   *)
(*                                 variant: update only)                   *)
(* Each handler is an async function; other requests interleave at its     *)
(* awaits, so a handler is one action per segment between two awaits.      *)
(* The record store and its stored procedure are outside the repository:   *)
(* every remote call may succeed, return an error object or reject.        *)
(*                                                                         *)
(* The other handlers of the backend are modelled next to them, each under *)
(* a specification of its own in which the rest of the backend is idle:    *)
(*   SpecUsers   signup, signin, update    src/src/Routes/users.js         *)
(*   SpecAuth    verifyToken               src/unnamed/part_007            *)
(*   SpecQuiz    DELETE quiz               src/src/Routes/quiz.js,         *)
(*                                         src/unnamed/part_004            *)
(*   SpecChat    POST chat-completion      src/unnamed/part_000            *)
(*   SpecSpeech  POST speech-to-text       src/unnamed/part_002            *)
(***************************************************************************)
EXTENDS Integers, FiniteSets, Sequences, TLC

\* ---------------------------------------------------------------- bounds
MaxSeed == 1       \* records already stored when the requests arrive

\* ---------------------------------------------------------------- values
Undefined == -1    \* a field missing from req.body (JavaScript undefined)
Null      == -2    \* SQL NULL in a stored column

Slots  == {1, 2}                 \* requests in flight at the same time
Users  == {1, 2}
Items  == {1, 2}                 \* practice ids / course ids
PracticeCourse == {1}            \* course_id sent along a practice event
RecordIds == {0, 1}              \* 0 is the "no record yet" sentinel
Routes == {"practice", "course", "courseV1"}

\* << user_id, item id >> of an event: two users on one item, one user on
\* two items, and an event with either field missing
Identities == { << 1, 1 >>, << 1, 2 >>, << 2, 1 >>,
                << Undefined, 1 >>, << 1, Undefined >> }

\* progress_poin, is_active, is_passed / is_course_completed of an event
Payloads == { [progress_poin |-> 10, is_active |-> TRUE,  is_done |-> FALSE],
              [progress_poin |-> 40, is_active |-> FALSE, is_done |-> TRUE] }

Outcomes == {"ok", "error", "throw"}   \* of one awaited remote call

VARIABLES
  practiceTable,    \* rows of t_user_practice_progress
  courseTable,      \* rows of t_user_course_progress
  practiceSeq,      \* last progress_practice_id the store assigned
  courseSeq,        \* last progress_course_id the store assigned
  uniqueConstraint, \* does the store enforce one row per (user, item)?
  clock,            \* last wall-clock reading
  route,            \* the progress route the requests go to
  pc,               \* per slot: idle, write, rpc, done
  kind,             \* per slot: which handler runs
  body,             \* per slot: req.body
  currentTimestamp, \* per slot: the handler's local of that name
  progress,         \* per slot: the handler's local of that name
  wrote,            \* per slot: outcome of the handler's store write
  nInsert,          \* per slot: insert calls issued
  nUpdate,          \* per slot: update calls issued
  rpcCalls,         \* per slot: sequence of parameters of db.rpc calls
  rpcResult,        \* per slot: outcome of the awaited db.rpc call
  response,         \* per slot: sequence of responses sent
  firstRecordId     \* per (user, practice): recordId kind of the first call

VARIABLES
  m_users,          \* rows of m_users
  usersSeq,         \* last user_id the store assigned
  emailUnique,      \* does the store enforce one m_users row per email?
  usersRoute,       \* the users route the requests go to
  usr,              \* per slot: one request to a users route
  auth,             \* per slot: one request through verifyToken
  m_quiz,           \* rows of m_quiz
  quizRoute,        \* which version of the quiz router is mounted
  quiz,             \* per slot: one DELETE quiz request
  conversationHistory, \* the module-level let of the chat router
  chat,             \* per slot: one chat-completion request
  speech            \* per slot: one speech-to-text request

usersVars == << m_users, usersSeq, emailUnique, usersRoute, usr >>

quizVars == << m_quiz, quizRoute, quiz >>

chatVars == << conversationHistory, chat >>

\* everything but the progress handlers
restVars == << usersVars, auth, quizVars, chatVars, speech >>

progressVars == << practiceTable, courseTable, practiceSeq, courseSeq,
                   uniqueConstraint, clock, route, pc, kind, body,
                   currentTimestamp, progress, wrote, nInsert, nUpdate,
                   rpcCalls, rpcResult, response, firstRecordId >>

vars == << practiceTable, courseTable, practiceSeq, courseSeq,
           uniqueConstraint, clock, route, pc, kind, body,
           currentTimestamp, progress, wrote, nInsert, nUpdate, rpcCalls,
           rpcResult, response, firstRecordId, restVars >>

storeVars == << practiceTable, courseTable, practiceSeq, courseSeq >>

NoBody == [progress_id |-> Undefined, user_id |-> Undefined,
           item_id |-> Undefined, course_id |-> Undefined,
           progress_poin |-> 0, is_active |-> FALSE, is_done |-> FALSE]

\* req.body of POST /api/practice/progress
PracticeBodies ==
  { [progress_id |-> id, user_id |-> k[1], item_id |-> k[2], course_id |-> c,
     progress_poin |-> pl.progress_poin, is_active |-> pl.is_active,
     is_done |-> pl.is_done] :
       id \in RecordIds \cup {Undefined}, k \in Identities,
       c \in PracticeCourse, pl \in Payloads }

\* req.body of POST /api/course/progress
CourseBodies ==
  { [progress_id |-> id, user_id |-> k[1], item_id |-> k[2],
     course_id |-> k[2], progress_poin |-> pl.progress_poin,
     is_active |-> pl.is_active, is_done |-> pl.is_done] :
       id \in RecordIds \cup {Undefined}, k \in Identities, pl \in Payloads }

\* ------------------------------------------------------------ the store
\* JSON.stringify drops a key whose value is undefined: the column of an
\* inserted row is then NULL, the column of an updated row is left alone.
Column(v) == IF v = Undefined THEN Null ELSE v

Keep(v, old) == IF v = Undefined THEN old ELSE v

\* .insert({ user_id, practice_id, progress_poin, is_active, is_passed,
\*           updated_at }) with the identity the store assigns
InsertRow(seq, b, ts) ==
  [id |-> seq + 1, user_id |-> Column(b.user_id), item_id |-> Column(b.item_id),
   progress_poin |-> b.progress_poin, is_active |-> b.is_active,
   is_done |-> b.is_done, updated_at |-> ts]

\* the filter without its user_id predicate
UpdateFilterIdOnly(table, b) == { r \in table : r.id = b.progress_id }

\* .eq("progress_practice_id", id).eq("user_id", user_id)
UpdateFilter(table, b) ==
  { r \in table : r.id = b.progress_id /\ r.user_id = b.user_id }

\* an update that adds the event's points to the stored ones
UpdateRowAccumulates(r, b, ts) ==
  [r EXCEPT !.progress_poin = r.progress_poin + b.progress_poin,
            !.is_active = b.is_active, !.is_done = b.is_done,
            !.item_id = Keep(b.item_id, r.item_id), !.updated_at = ts]

\* an update that never lowers the stored points
UpdateRowNeverLowers(r, b, ts) ==
  [r EXCEPT !.progress_poin = IF b.progress_poin < r.progress_poin
                              THEN r.progress_poin ELSE b.progress_poin,
            !.is_active = b.is_active, !.is_done = b.is_done,
            !.item_id = Keep(b.item_id, r.item_id), !.updated_at = ts]

\* an update that keeps the later of the stored and the sent timestamp
UpdateRowKeepsNewerTimestamp(r, b, ts) ==
  [r EXCEPT !.progress_poin = b.progress_poin, !.is_active = b.is_active,
            !.is_done = b.is_done, !.item_id = Keep(b.item_id, r.item_id),
            !.updated_at = IF ts < r.updated_at THEN r.updated_at ELSE ts]

\* an update that sends no updated_at
UpdateRowNoTimestamp(r, b, ts) ==
  [r EXCEPT !.progress_poin = b.progress_poin, !.is_active = b.is_active,
            !.is_done = b.is_done, !.item_id = Keep(b.item_id, r.item_id)]

\* .update({ progress_poin, is_active, is_passed, practice_id, updated_at })
UpdateRow(r, b, ts) ==
  [r EXCEPT !.progress_poin = b.progress_poin, !.is_active = b.is_active,
            !.is_done = b.is_done, !.item_id = Keep(b.item_id, r.item_id),
            !.updated_at = ts]

\* the older course handler sends no updated_at
UpdateRowV1(r, b) ==
  [r EXCEPT !.progress_poin = b.progress_poin, !.is_active = b.is_active,
            !.is_done = b.is_done, !.item_id = Keep(b.item_id, r.item_id)]

\* .select("progress_practice_id, user_id, practice_id, progress_poin,
\*          is_active, is_passed"): the returned rows carry no updated_at
Select(rows) ==
  { [id |-> r.id, user_id |-> r.user_id, item_id |-> r.item_id,
     progress_poin |-> r.progress_poin, is_active |-> r.is_active,
     is_done |-> r.is_done] : r \in rows }

\* two rows for one (user, item); NULL never equals NULL
Duplicates(table) ==
  \E r1, r2 \in table :
    /\ r1 # r2
    /\ r1.user_id = r2.user_id /\ r1.item_id = r2.item_id
    /\ r1.user_id # Null /\ r1.item_id # Null

\* the k-th record stored before the requests arrive: user 1's progress on
\* item k, as the create branch of an earlier request left it
SeedRow(k) ==
  [id |-> k, user_id |-> 1, item_id |-> k, progress_poin |-> 10,
   is_active |-> TRUE, is_done |-> FALSE, updated_at |-> 0]

Seeded(n) == { SeedRow(k) : k \in 1..n }

\* outcomes the store can give a write that would leave the table as `after`
WriteOutcomes(after) ==
  IF uniqueConstraint /\ Duplicates(after) THEN {"error"} ELSE Outcomes

\* ------------------------------------------------- what the handlers decide
\* the branch written as if (progress_practice_id): a missing id inserts
PracticeBranchTruthy(b) ==
  IF b.progress_id # 0 /\ b.progress_id # Undefined THEN "update" ELSE "insert"

\* a handler that returns before the store when the id is missing
PracticeBranchSkipsMissing(b) ==
  CASE b.progress_id = Undefined -> "none"
    [] b.progress_id = 0 -> "insert"
    [] OTHER -> "update"

\* practice.js:169  if (progress_practice_id !== 0) update, else insert
PracticeBranch(b) == IF b.progress_id # 0 THEN "update" ELSE "insert"

\* mail.js:477  if (progress_course_id === 0) insert, else update
CourseBranch(b) == IF b.progress_id = 0 THEN "insert" ELSE "update"

\* practice.js:220-223  parameters of update_user_course_progress_poin
RpcParams(b) == [i_user_id |-> b.user_id, i_course_id |-> b.course_id]

\* the rpc placed inside the insert branch: an update recomputes nothing
PracticeRpcsInsertOnly(o, b) ==
  IF o = "ok" /\ b.progress_id = 0 THEN << RpcParams(b) >> ELSE << >>

\* the rpc issued whatever the write returned
PracticeRpcsAlways(o, b) == << RpcParams(b) >>

\* the insert's error object not looked at before the rpc
PracticeRpcsAfterRefusedInsert(o, b) ==
  IF o = "ok" \/ (o = "error" /\ b.progress_id = 0)
  THEN << RpcParams(b) >> ELSE << >>

\* practice.js:186-223  db.rpc calls the handler issues once its write has
\* returned with outcome o: none after an error return or a rejection
PracticeRpcs(o, b) == IF o = "ok" THEN << RpcParams(b) >> ELSE << >>

Failed(msg) == [status |-> 500, error |-> msg, body |-> {}, null |-> FALSE]

Succeeded(rows) == [status |-> 200, error |-> "", body |-> rows, null |-> FALSE]

\* the write's error object not looked at, as in the older course handler
PracticeWriteResponseUnchecked(o, branch) ==
  CASE o = "error" -> << [status |-> 200, error |-> "", body |-> {}, null |-> TRUE] >>
    [] o = "throw" -> << Failed("Internal server error") >>
    [] OTHER -> << >>

\* a write error that ends the handler without an answer
PracticeWriteResponseSilent(o, branch) ==
  IF o = "throw" THEN << Failed("Internal server error") >> ELSE << >>

\* practice.js:186-191, 210-215, 229-234  what the handler answers when its
\* write has returned with outcome o (nothing yet when it goes on to the rpc)
PracticeWriteResponse(o, branch) ==
  CASE o = "error" /\ branch = "update" -> << Failed("Failed to update the record") >>
    [] o = "error" /\ branch = "insert" -> << Failed("Failed to insert new record") >>
    [] o = "throw" -> << Failed("Internal server error") >>
    [] OTHER -> << >>

\* a success answered without the rows the write returned
PracticeRpcResponseNoRows(o, rows) ==
  IF o = "throw" THEN Failed("Internal server error") ELSE Succeeded({})

\* practice.js:220-234  the awaited rpc result is not looked at; a rejection
\* lands in the catch block
PracticeRpcResponse(o, rows) ==
  IF o = "throw" THEN Failed("Internal server error") ELSE Succeeded(rows)

\* mail.js:493-498, 518-536
CourseWriteResponse(o, branch, rows) ==
  CASE o = "error" /\ branch = "update" -> Failed("Failed to update record")
    [] o = "error" /\ branch = "insert" -> Failed("Failed to insert new record")
    [] o = "throw" -> Failed("Internal server error")
    [] OTHER -> Succeeded(rows)

\* mail.js:281-304  the error of the update is not looked at: data is null
CourseV1WriteResponse(o, rows) ==
  CASE o = "error" -> [status |-> 200, error |-> "", body |-> {}, null |-> TRUE]
    [] o = "throw" -> Failed("Internal server error")
    [] OTHER -> Succeeded(rows)

\* ------------------------------------------------ the backend at rest
\* a slot no request has come to yet, per handler family
IdleUsr ==
  [pc |-> "idle",
   body |-> [email |-> "", password |-> "", user_id |-> Undefined, name |-> ""],
   data |-> {}, isNull |-> FALSE, hashedPassword |-> << >>,
   passwordMatch |-> FALSE, wrote |-> "none", rpcCalls |-> << >>,
   response |-> << >>]

IdleAuth ==
  [pc |-> "idle", authorization |-> [present |-> FALSE, words |-> << >>],
   user |-> << >>, nextCalls |-> 0, response |-> << >>]

IdleQuiz ==
  [pc |-> "idle", id |-> Undefined, quiz_id |-> Undefined,
   response |-> << >>]

IdleChat ==
  [pc |-> "idle", conversation |-> << >>, sent |-> << >>, response |-> << >>]

IdleSpeech ==
  [pc |-> "idle", promise |-> "none", session |-> "none", recognized |-> 0,
   response |-> << >>]

UsersIdle ==
  /\ m_users = {} /\ usersSeq = 0 /\ emailUnique = FALSE
  /\ usersRoute = "none" /\ usr = [i \in Slots |-> IdleUsr]

AuthIdle == auth = [i \in Slots |-> IdleAuth]

QuizIdle ==
  /\ m_quiz = {} /\ quizRoute = "none" /\ quiz = [i \in Slots |-> IdleQuiz]

ChatIdle ==
  /\ conversationHistory = << >> /\ chat = [i \in Slots |-> IdleChat]

SpeechIdle == speech = [i \in Slots |-> IdleSpeech]

\* ------------------------------------------------------------------ Init
Init ==
  /\ route \in Routes
  /\ \E n \in 0..MaxSeed :
       /\ practiceTable = IF route = "practice" THEN Seeded(n) ELSE {}
       /\ practiceSeq = IF route = "practice" THEN n ELSE 0
       /\ courseTable = IF route = "practice" THEN {} ELSE Seeded(n)
       /\ courseSeq = IF route = "practice" THEN 0 ELSE n
       /\ firstRecordId =
            [k \in Users \X Items |->
               IF route = "practice" /\ k[1] = 1 /\ k[2] \in 1..n
               THEN "absent" ELSE "none"]
  /\ uniqueConstraint \in BOOLEAN
  /\ clock = 0
  /\ pc = [i \in Slots |-> "idle"]
  /\ kind = [i \in Slots |-> "none"]
  /\ body = [i \in Slots |-> NoBody]
  /\ currentTimestamp = [i \in Slots |-> 0]
  /\ progress = [i \in Slots |-> {}]
  /\ wrote = [i \in Slots |-> "none"]
  /\ nInsert = [i \in Slots |-> 0]
  /\ nUpdate = [i \in Slots |-> 0]
  /\ rpcCalls = [i \in Slots |-> << >>]
  /\ rpcResult = [i \in Slots |-> "none"]
  /\ response = [i \in Slots |-> << >>]
  /\ UsersIdle /\ AuthIdle /\ QuizIdle /\ ChatIdle /\ SpeechIdle

\* ------------------------------------------------------------- receiving
\* new Date(): the wall clock has moved on since the last request read it.
\* currentTimestamp holds the clock reading itself; the id-ID string that
\* toLocaleString formats from it, and the store's parsing of that string,
\* are not represented.
Now == clock + 1

\* the part of a handler that runs until its first await: destructure
\* req.body, take the timestamp, issue the insert or the update
Receive(i, k, b, branch, t) ==
  /\ pc[i] = "idle"
  /\ \A j \in Slots : j < i => pc[j] # "idle"   \* the first free slot
  /\ route = k
  /\ clock' = t
  /\ pc' = [pc EXCEPT ![i] = "write"]
  /\ kind' = [kind EXCEPT ![i] = k]
  /\ body' = [body EXCEPT ![i] = b]
  /\ currentTimestamp' = [currentTimestamp EXCEPT ![i] = t]
  /\ nInsert' = [nInsert EXCEPT ![i] = IF branch = "insert" THEN 1 ELSE 0]
  /\ nUpdate' = [nUpdate EXCEPT ![i] = IF branch = "update" THEN 1 ELSE 0]
  /\ UNCHANGED << storeVars, uniqueConstraint, route, progress, wrote,
                  rpcCalls, rpcResult, response, restVars >>

\* practice.js:152-184, 194-208
PracticeProgressReceive(i) ==
  \E b \in PracticeBodies :
    /\ Receive(i, "practice", b, PracticeBranch(b), Now)
    /\ firstRecordId' =
         IF b.user_id \in Users /\ b.item_id \in Items
            /\ firstRecordId[<< b.user_id, b.item_id >>] = "none"
         THEN [firstRecordId EXCEPT ![<< b.user_id, b.item_id >>] =
                 IF b.progress_id = 0 THEN "absent" ELSE "present"]
         ELSE firstRecordId

\* mail.js:460-516
CourseProgressReceive(i) ==
  \E b \in CourseBodies :
    /\ Receive(i, "course", b, CourseBranch(b), Now)
    /\ UNCHANGED firstRecordId

\* mail.js:270-293  (no timestamp is taken: the clock is not read)
CourseProgressV1Receive(i) ==
  \E b \in CourseBodies :
    /\ Receive(i, "courseV1", b, "update", clock)
    /\ UNCHANGED firstRecordId

\* ------------------------------------------------------- the store write
\* an insert that replaces the record the pair already has
InsertedReplacing(table, seq, b, ts) ==
  { r \in table : r.user_id # b.user_id \/ r.item_id # b.item_id }
    \cup { InsertRow(seq, b, ts) }

\* the table after the insert the handler issued, and the row it returns
Inserted(table, seq, b, ts) == table \cup { InsertRow(seq, b, ts) }

\* the rows an update rewrites, as they are afterwards
Updated(table, b, ts) == { UpdateRow(r, b, ts) : r \in UpdateFilter(table, b) }

UpdatedV1(table, b) == { UpdateRowV1(r, b) : r \in UpdateFilter(table, b) }

SlotVarsOnWrite(i, o, rows, rpcs, resp) ==
  /\ wrote' = [wrote EXCEPT ![i] = o]
  /\ progress' = [progress EXCEPT ![i] = IF o = "ok" THEN rows ELSE {}]
  /\ rpcCalls' = [rpcCalls EXCEPT ![i] = rpcs]
  /\ response' = [response EXCEPT ![i] = resp]
  /\ pc' = [pc EXCEPT ![i] = IF rpcs # << >> THEN "rpc" ELSE "done"]
  /\ UNCHANGED << uniqueConstraint, clock, route, kind, body,
                  currentTimestamp, nInsert, nUpdate, rpcResult,
                  firstRecordId, restVars >>

\* practice.js:171-223  the store answers the write, the handler resumes and
\* either answers 500 or goes on to await the rpc
PracticeProgressWrite(i) ==
  /\ pc[i] = "write" /\ kind[i] = "practice"
  /\ LET b == body[i]
         ts == currentTimestamp[i]
         branch == PracticeBranch(b)
         new == IF branch = "insert"
                THEN { InsertRow(practiceSeq, b, ts) }
                ELSE Updated(practiceTable, b, ts)
         after == IF branch = "insert"
                  THEN Inserted(practiceTable, practiceSeq, b, ts)
                  ELSE (practiceTable \ UpdateFilter(practiceTable, b)) \cup new
     IN \E o \in WriteOutcomes(after) :
          /\ practiceTable' = IF o = "ok" THEN after ELSE practiceTable
          /\ practiceSeq' = IF o = "ok" /\ branch = "insert"
                            THEN practiceSeq + 1 ELSE practiceSeq
          /\ SlotVarsOnWrite(i, o, Select(new), PracticeRpcs(o, b),
                             PracticeWriteResponse(o, branch))
  /\ UNCHANGED << courseTable, courseSeq >>

\* practice.js:220-234  the rpc returns, the handler answers
PracticeProgressRpc(i) ==
  /\ pc[i] = "rpc" /\ kind[i] = "practice"
  /\ \E o \in Outcomes :
       /\ rpcResult' = [rpcResult EXCEPT ![i] = o]
       /\ response' = [response EXCEPT ![i] =
                         Append(@, PracticeRpcResponse(o, progress[i]))]
  /\ pc' = [pc EXCEPT ![i] = "done"]
  /\ UNCHANGED << storeVars, uniqueConstraint, clock, route, kind, body,
                  currentTimestamp, progress, wrote, nInsert, nUpdate,
                  rpcCalls, firstRecordId, restVars >>

\* mail.js:477-537
CourseProgressWrite(i) ==
  /\ pc[i] = "write" /\ kind[i] = "course"
  /\ LET b == body[i]
         ts == currentTimestamp[i]
         branch == CourseBranch(b)
         new == IF branch = "insert"
                THEN { InsertRow(courseSeq, b, ts) }
                ELSE Updated(courseTable, b, ts)
         after == IF branch = "insert"
                  THEN Inserted(courseTable, courseSeq, b, ts)
                  ELSE (courseTable \ UpdateFilter(courseTable, b)) \cup new
     IN \E o \in WriteOutcomes(after) :
          /\ courseTable' = IF o = "ok" THEN after ELSE courseTable
          /\ courseSeq' = IF o = "ok" /\ branch = "insert"
                          THEN courseSeq + 1 ELSE courseSeq
          /\ SlotVarsOnWrite(i, o, Select(new), << >>,
                             << CourseWriteResponse(o, branch, Select(new)) >>)
  /\ UNCHANGED << practiceTable, practiceSeq >>

\* mail.js:281-304
CourseProgressV1Write(i) ==
  /\ pc[i] = "write" /\ kind[i] = "courseV1"
  /\ LET b == body[i]
         new == UpdatedV1(courseTable, b)
         after == (courseTable \ UpdateFilter(courseTable, b)) \cup new
     IN \E o \in WriteOutcomes(after) :
          /\ courseTable' = IF o = "ok" THEN after ELSE courseTable
          /\ SlotVarsOnWrite(i, o, Select(new), << >>,
                             << CourseV1WriteResponse(o, Select(new)) >>)
  /\ UNCHANGED << practiceTable, practiceSeq, courseSeq >>

Next ==
  \E i \in Slots :
    \/ PracticeProgressReceive(i)
    \/ PracticeProgressWrite(i)
    \/ PracticeProgressRpc(i)
    \/ CourseProgressReceive(i)
    \/ CourseProgressWrite(i)
    \/ CourseProgressV1Receive(i)
    \/ CourseProgressV1Write(i)

Spec == Init /\ [][Next]_vars

\* the progress handlers with no request
ProgressIdle ==
  /\ route = "practice"
  /\ practiceTable = {} /\ practiceSeq = 0
  /\ courseTable = {} /\ courseSeq = 0
  /\ firstRecordId = [k \in Users \X Items |-> "none"]
  /\ uniqueConstraint = FALSE
  /\ clock = 0
  /\ pc = [i \in Slots |-> "idle"]
  /\ kind = [i \in Slots |-> "none"]
  /\ body = [i \in Slots |-> NoBody]
  /\ currentTimestamp = [i \in Slots |-> 0]
  /\ progress = [i \in Slots |-> {}]
  /\ wrote = [i \in Slots |-> "none"]
  /\ nInsert = [i \in Slots |-> 0]
  /\ nUpdate = [i \in Slots |-> 0]
  /\ rpcCalls = [i \in Slots |-> << >>]
  /\ rpcResult = [i \in Slots |-> "none"]
  /\ response = [i \in Slots |-> << >>]

\* ======================================================================
\* users.js: signup, signin, update
\* ======================================================================
Missing == "undefined"      \* a string field missing from req.body

UserEmails == {"a@x", "b@x"}

Passwords == {"pw1", "pw2"}

UsersRoutes == {"signup", "signin", "update"}

\* bcrypt.hash(password, 10); the salt is left out: bcrypt.compare accepts
\* exactly the hashes made of the same password
Hash(p) == << "bcrypt", p >>

\* bcrypt.compare(password, user.password)
Compare(p, h) == h = Hash(p)

\* jwt.sign({ userId: user.id }, JWT_SECRET, { expiresIn: "168h" }); the
\* select of the signin handler does not fetch a column named id
JwtSign(userId) ==
  [payload |-> [userId |-> userId], key |-> "JWT_SECRET", expiresIn |-> "168h"]

\* the user stored before the requests arrive
SeedUser(verified) ==
  [user_id |-> 1, email |-> "a@x", password |-> Hash("pw1"),
   fgVerified |-> verified, user_last_login |-> "before", name |-> "n0"]

SignupBodies ==
  { [email |-> e, password |-> p, user_id |-> Undefined, name |-> "n1"] :
      e \in UserEmails, p \in Passwords \cup {Missing} }

SigninBodies ==
  { [email |-> e, password |-> p, user_id |-> Undefined, name |-> ""] :
      e \in UserEmails, p \in Passwords \cup {Missing} }

UpdateBodies ==
  { [email |-> "", password |-> "", user_id |-> u, name |-> "n1"] :
      u \in {1, 2, Undefined} }

Reply(status, text) ==
  [status |-> status, text |-> text, token |-> << >>, data |-> {}]

ReplyWith(status, text, token, rows) ==
  [status |-> status, text |-> text, token |-> token, data |-> rows]

\* two m_users rows with one email
EmailDuplicates(table) ==
  \E r1, r2 \in table : r1 # r2 /\ r1.email = r2.email

UsersWriteOutcomes(after) ==
  IF emailUnique /\ EmailDuplicates(after) THEN {"error"} ELSE Outcomes

\* users.js:462-479  the row of .insert([{ name, email, password, birth_date }])
NewUserRow(seq, b, hashed) ==
  [user_id |-> seq + 1, email |-> b.email, password |-> hashed,
   fgVerified |-> FALSE, user_last_login |-> "never", name |-> b.name]

\* users.js:459  existingUsers && existingUsers.length > 0
UserExists(rows, isNull) == ~isNull /\ rows # {}

\* users.js:465-479  m_users after the insert
NewUsers(table, row) == table \cup {row}

\* the rpc issued whatever the insert returned
SignupRpcsAlways(o, row) == << [i_user_id |-> row.user_id] >>

\* users.js:465-482  db.rpc("insert_user_progress", { i_user_id:
\* newUser[0].user_id }): newUser is null after an error, and newUser[0]
\* throws before the rpc
SignupRpcs(o, row) ==
  IF o = "ok" THEN << [i_user_id |-> row.user_id] >> ELSE << >>

\* a token issued before the password is looked at
SigninDecisionNoPassword(user, match) ==
  IF ~user.fgVerified THEN 402 ELSE 200

\* users.js:542-552  the status the signin handler has decided on after
\* bcrypt.compare (200: it goes on to the update and the token)
SigninDecision(user, match) ==
  CASE ~user.fgVerified -> 402
    [] ~match -> 403
    [] OTHER -> 200

\* users.js:554-557  .update({ user_last_login }).eq("email", email)
LastLoginUpdated(table, email) ==
  { IF r.email = email THEN [r EXCEPT !.user_last_login = "today"] ELSE r :
      r \in table }

\* users.js:745-760  users is null only together with an error; an update
\* that matched nothing returns an empty list, which is truthy
UpdateAnswer(o, rows) ==
  CASE o = "error" -> Reply(500, "error.message")
    [] o = "throw" -> Reply(500, "Internal server error.")
    [] OTHER -> ReplyWith(200, "User updated successfully.", << >>, rows)

\* users.js:736-743  .update({ name, birth_date, image }).eq("user_id", user_id)
UsersUpdated(table, b) ==
  { [r EXCEPT !.name = b.name] : r \in { x \in table : x.user_id = b.user_id } }

UsersInit ==
  /\ usersRoute \in UsersRoutes
  /\ m_users \in { {}, { SeedUser(TRUE) }, { SeedUser(FALSE) } }
  /\ usersSeq = Cardinality(m_users)
  /\ emailUnique \in BOOLEAN
  /\ usr = [i \in Slots |-> IdleUsr]

UsersOnly == UNCHANGED << progressVars, auth, quizVars, chatVars, speech >>

\* slot i goes on as rec; the table stays as it is
UsrStep(i, rec) ==
  /\ usr' = [usr EXCEPT ![i] = rec]
  /\ UNCHANGED << emailUnique, usersRoute >>
  /\ UsersOnly

UsrDone(u, resp) == [u EXCEPT !.pc = "done", !.response = << resp >>]

\* the part of a users handler that runs until its first await
UsersReceive(i, r, b, first) ==
  /\ usr[i].pc = "idle"
  /\ \A j \in Slots : j < i => usr[j].pc # "idle"
  /\ usersRoute = r
  /\ UsrStep(i, [IdleUsr EXCEPT !.pc = first, !.body = b])
  /\ UNCHANGED << m_users, usersSeq >>

\* users.js:449-457
SignupReceive(i) ==
  \E b \in SignupBodies : UsersReceive(i, "signup", b, "select")

\* users.js:454-464  the select returns; its error is not looked at
SignupSelect(i) ==
  /\ usersRoute = "signup" /\ usr[i].pc = "select"
  /\ \E o \in Outcomes :
       LET u == usr[i]
           existingUsers == IF o = "ok"
                            THEN { r \in m_users : r.email = u.body.email }
                            ELSE {}
           isNull == o = "error"
       IN UsrStep(i,
            CASE o = "throw" -> UsrDone(u, Reply(500, "Internal server error."))
              [] UserExists(existingUsers, isNull) ->
                   UsrDone([u EXCEPT !.data = existingUsers],
                           Reply(400, "User already exists."))
              [] OTHER -> [u EXCEPT !.pc = "hash", !.data = existingUsers,
                                    !.isNull = isNull])
  /\ UNCHANGED << m_users, usersSeq >>

\* users.js:463-476  bcrypt.hash returns (it rejects a missing password)
SignupHash(i) ==
  /\ usersRoute = "signup" /\ usr[i].pc = "hash"
  /\ LET u == usr[i]
     IN UsrStep(i,
          IF u.body.password = Missing
          THEN UsrDone(u, Reply(500, "Internal server error."))
          ELSE [u EXCEPT !.pc = "insert",
                         !.hashedPassword = Hash(u.body.password)])
  /\ UNCHANGED << m_users, usersSeq >>

\* users.js:466-482  the insert returns
SignupInsert(i) ==
  /\ usersRoute = "signup" /\ usr[i].pc = "insert"
  /\ LET u == usr[i]
         row == NewUserRow(usersSeq, u.body, u.hashedPassword)
         after == NewUsers(m_users, row)
     IN \E o \in UsersWriteOutcomes(after) :
          /\ m_users' = IF o = "ok" THEN after ELSE m_users
          /\ usersSeq' = IF o = "ok" /\ after # m_users
                         THEN usersSeq + 1 ELSE usersSeq
          /\ LET rpcs == SignupRpcs(o, row)
                 v == [u EXCEPT !.wrote = o, !.rpcCalls = rpcs,
                                !.data = IF o = "ok" THEN {row} ELSE {}]
             IN UsrStep(i,
                  IF o = "ok"
                  THEN [v EXCEPT !.pc = "rpc"]
                  ELSE UsrDone(v, Reply(500, "Internal server error.")))

\* users.js:481-489  the rpc returns; its error is not looked at
SignupRpc(i) ==
  /\ usersRoute = "signup" /\ usr[i].pc = "rpc"
  /\ \E o \in Outcomes :
       LET u == usr[i]
       IN UsrStep(i,
            IF o = "throw"
            THEN UsrDone(u, Reply(500, "Internal server error."))
            ELSE UsrDone(u, ReplyWith(200, "User signed up successfully.",
                                      << >>, u.data)))
  /\ UNCHANGED << m_users, usersSeq >>

\* users.js:520-529
SigninReceive(i) ==
  \E b \in SigninBodies : UsersReceive(i, "signin", b, "select")

\* users.js:525-537  the select with .limit(1) returns
SigninSelect(i) ==
  /\ usersRoute = "signin" /\ usr[i].pc = "select"
  /\ LET u == usr[i]
         found == { r \in m_users : r.email = u.body.email }
     IN \/ UsrStep(i, UsrDone(u, Reply(500, "Internal server error.")))
        \/ UsrStep(i, UsrDone([u EXCEPT !.isNull = TRUE],
                  Reply(403, "Unauthorized, incorrect email or password.")))
        \/ /\ found = {}
           /\ UsrStep(i, UsrDone(u,
                  Reply(403, "Unauthorized, incorrect email or password.")))
        \/ \E user \in found :
             UsrStep(i, [u EXCEPT !.pc = "compare", !.data = {user}])
  /\ UNCHANGED << m_users, usersSeq >>

\* users.js:537-557  bcrypt.compare returns (it rejects a missing password)
SigninCompare(i) ==
  /\ usersRoute = "signin" /\ usr[i].pc = "compare"
  /\ LET u == usr[i]
         user == CHOOSE r \in u.data : TRUE
         passwordMatch == Compare(u.body.password, user.password)
         decision == SigninDecision(user, passwordMatch)
     IN UsrStep(i,
          CASE u.body.password = Missing ->
                 UsrDone(u, Reply(500, "Internal server error."))
            [] decision = 402 ->
                 UsrDone([u EXCEPT !.passwordMatch = passwordMatch],
                   Reply(402, "Unauthorized, Please check your email to verify account first."))
            [] decision = 403 ->
                 UsrDone([u EXCEPT !.passwordMatch = passwordMatch],
                   Reply(403, "Unauthorized, incorrect email or password."))
            [] OTHER -> [u EXCEPT !.pc = "update",
                                  !.passwordMatch = passwordMatch])
  /\ UNCHANGED << m_users, usersSeq >>

\* users.js:554-575  the update returns; its error is not looked at
SigninUpdate(i) ==
  /\ usersRoute = "signin" /\ usr[i].pc = "update"
  /\ \E o \in Outcomes :
       LET u == usr[i]
           user == CHOOSE r \in u.data : TRUE
       IN /\ m_users' = IF o = "ok"
                        THEN LastLoginUpdated(m_users, u.body.email)
                        ELSE m_users
          /\ UsrStep(i,
               IF o = "throw"
               THEN UsrDone([u EXCEPT !.wrote = o],
                            Reply(500, "Internal server error."))
               ELSE UsrDone([u EXCEPT !.wrote = o],
                            ReplyWith(200, "User signed in successfully.",
                                      << JwtSign(Undefined) >>, u.data)))
  /\ UNCHANGED usersSeq

\* users.js:732-743
UpdateReceive(i) ==
  \E b \in UpdateBodies : UsersReceive(i, "update", b, "write")

\* users.js:736-761  the update returns
UpdateWrite(i) ==
  /\ usersRoute = "update" /\ usr[i].pc = "write"
  /\ LET u == usr[i]
         matched == { r \in m_users : r.user_id = u.body.user_id }
         new == UsersUpdated(m_users, u.body)
     IN \E o \in Outcomes :
          /\ m_users' = IF o = "ok" THEN (m_users \ matched) \cup new
                        ELSE m_users
          /\ UsrStep(i,
               UsrDone([u EXCEPT !.wrote = o,
                                 !.data = IF o = "ok" THEN new ELSE {},
                                 !.isNull = o = "error"],
                       UpdateAnswer(o, new)))
  /\ UNCHANGED usersSeq

UsersNext ==
  \E i \in Slots :
    \/ SignupReceive(i)
    \/ SignupSelect(i)
    \/ SignupHash(i)
    \/ SignupInsert(i)
    \/ SignupRpc(i)
    \/ SigninReceive(i)
    \/ SigninSelect(i)
    \/ SigninCompare(i)
    \/ SigninUpdate(i)
    \/ UpdateReceive(i)
    \/ UpdateWrite(i)

InitUsers ==
  /\ UsersInit
  /\ ProgressIdle /\ AuthIdle /\ QuizIdle /\ ChatIdle /\ SpeechIdle

SpecUsers == InitUsers /\ [][UsersNext]_vars


\* ======================================================================
\* helpers/middleware.js: verifyToken
\* ======================================================================
\* the Authorization header: absent, or the words a split on " " gives
Header(words) == [present |-> TRUE, words |-> words]

AuthHeaders ==
  { [present |-> FALSE, words |-> << >>],
    Header(<< "" >>),
    Header(<< "Bearer" >>),
    Header(<< "good" >>),
    Header(<< "Bearer", "good" >>),
    Header(<< "Basic", "good" >>),
    Header(<< "Bearer", "expired" >>),
    Header(<< "Bearer", "forged" >>),
    Header(<< "Bearer", "garbage" >>),
    Header(<< "Bearer", "", "good" >>) }

\* what the strings used as tokens are
TokenOf(w) ==
  CASE w = "good" ->
         [jwt |-> TRUE, key |-> "JWT_SECRET", expired |-> FALSE]
    [] w = "expired" ->
         [jwt |-> TRUE, key |-> "JWT_SECRET", expired |-> TRUE]
    [] w = "forged" ->
         [jwt |-> TRUE, key |-> "another key", expired |-> FALSE]
    [] OTHER ->
         [jwt |-> FALSE, key |-> "", expired |-> FALSE]

\* part_007:7-9  !token: no header, or an empty one
Falsy(h) == ~h.present \/ h.words = << "" >>

\* part_007:16  token.split(" ")[1]
SecondWord(h) == IF Len(h.words) >= 2 THEN h.words[2] ELSE Missing

\* part_007:16  jwt.verify(..., process.env.JWT_SECRET) returns (it throws
\* otherwise)
JwtVerifies(w) ==
  TokenOf(w).jwt /\ TokenOf(w).key = "JWT_SECRET" /\ ~TokenOf(w).expired

\* a middleware that lets every request with a header through
VerifyTokenStatusUnverified(h) == IF Falsy(h) THEN 401 ELSE 200

\* part_007:6-23  401, 403, or 200 standing for the call of next()
VerifyTokenStatus(h) ==
  CASE Falsy(h) -> 401
    [] JwtVerifies(SecondWord(h)) -> 200
    [] OTHER -> 403

AuthInit == auth = [i \in Slots |-> IdleAuth]

\* part_007:6-23  the middleware runs from its call to its return; next()
\* hands over to the route's async handler, which does not throw into it
VerifyToken(i) ==
  /\ auth[i].pc = "idle"
  /\ \A j \in Slots : j < i => auth[j].pc # "idle"
  /\ \E h \in AuthHeaders :
       LET status == VerifyTokenStatus(h)
       IN auth' = [auth EXCEPT ![i] =
            [pc |-> "done", authorization |-> h,
             user |-> IF status = 200 THEN << TokenOf(SecondWord(h)) >>
                      ELSE << >>,
             nextCalls |-> IF status = 200 THEN 1 ELSE 0,
             response |->
               CASE status = 401 ->
                      << Reply(401, "Access denied. Token not provided.") >>
                 [] status = 403 -> << Reply(403, "Invalid token.") >>
                 [] OTHER -> << >>]]
  /\ UNCHANGED << progressVars, usersVars, quizVars, chatVars, speech >>

AuthNext == \E i \in Slots : VerifyToken(i)

InitAuth ==
  /\ AuthInit
  /\ ProgressIdle /\ UsersIdle /\ QuizIdle /\ ChatIdle /\ SpeechIdle

SpecAuth == InitAuth /\ [][AuthNext]_vars

\* ======================================================================
\* quiz.js, part_004: DELETE /api/quiz/admin/delete/:id
\* ======================================================================
QuizRouters == {"quiz.js", "part_004"}

PathIds == {1, 2, 3}      \* the id in the path

QuizRow(k) == [quiz_id |-> k]

\* quiz.js:202      const { quiz_id } = req.params.id   (a property of the
\*                  string: undefined)
\* part_004:362     const { quiz_id } = req.params
QuizIdOf(router, id) == IF router = "quiz.js" THEN Undefined ELSE id

\* quiz.js:204, part_004:371  .delete().eq("quiz_id", quiz_id)
QuizDeleted(table, quiz_id) == { r \in table : r.quiz_id # quiz_id }

\* quiz.js:206-216, part_004:373-383
QuizAnswer(o) ==
  CASE o = "error" -> Reply(500, "error.message")
    [] o = "throw" -> Reply(500, "Internal Server Error")
    [] OTHER -> Reply(200, "Quiz deleted successfully.")

QuizInit ==
  /\ quizRoute \in QuizRouters
  /\ m_quiz \in { { QuizRow(1) }, { QuizRow(1), QuizRow(2) } }
  /\ quiz = [i \in Slots |-> IdleQuiz]

QuizOnly == UNCHANGED << progressVars, usersVars, auth, chatVars, speech >>

\* quiz.js:200-204, part_004:360-371  (the path of the route always holds a
\* non-empty id, so the 400 of part_004:364-369 is not reached)
QuizDeleteReceive(i) ==
  /\ quiz[i].pc = "idle"
  /\ \A j \in Slots : j < i => quiz[j].pc # "idle"
  /\ \E id \in PathIds :
       quiz' = [quiz EXCEPT ![i] =
                  [IdleQuiz EXCEPT !.pc = "delete", !.id = id,
                                   !.quiz_id = QuizIdOf(quizRoute, id)]]
  /\ UNCHANGED << m_quiz, quizRoute >>
  /\ QuizOnly

\* quiz.js:204-216, part_004:371-383  the delete returns
QuizDeleteReturn(i) ==
  /\ quiz[i].pc = "delete"
  /\ \E o \in Outcomes :
       /\ m_quiz' = IF o = "ok" THEN QuizDeleted(m_quiz, quiz[i].quiz_id)
                    ELSE m_quiz
       /\ quiz' = [quiz EXCEPT ![i].pc = "done",
                               ![i].response = << QuizAnswer(o) >>]
  /\ UNCHANGED quizRoute
  /\ QuizOnly

QuizNext == \E i \in Slots : QuizDeleteReceive(i) \/ QuizDeleteReturn(i)

InitQuiz ==
  /\ QuizInit
  /\ ProgressIdle /\ UsersIdle /\ AuthIdle /\ ChatIdle /\ SpeechIdle

SpecQuiz == InitQuiz /\ [][QuizNext]_vars

\* ======================================================================
\* part_000: POST /chat-completion
\* ======================================================================
\* part_000:110-130  the four system messages
SystemPrompts == << "system 1", "system 2", "system 3", "system 4" >>

\* req.body.conversation: an array of messages, one message, or nothing
ChatBodies ==
  { [isArray |-> TRUE, items |-> << "u1", "u2" >>, value |-> ""],
    [isArray |-> FALSE, items |-> << >>, value |-> "u3"],
    [isArray |-> FALSE, items |-> << >>, value |-> Missing] }

\* part_000:92-94  Array.isArray(conversation) ? conversation : [conversation]
Messages(c) == IF c.isArray THEN c.items ELSE << c.value >>

\* a history that starts afresh with every request
AppendedFresh(history, messages) == messages

\* part_000:97  [...conversationHistory, ...messages]
Appended(history, messages) == history \o messages

\* part_000:108-132  messages: [the system messages, ...conversation]
VendorMessages(conversation) == SystemPrompts \o conversation

\* what the vendor answers to the messages it was sent
Completion(sent) == << "reply to", sent >>

ChatOutcomes == {"ok", "no choice", "throw"}

\* part_000:101-105  chatCompletion.choices[0]?.message?.content || ""
ChatAnswer(o, sent) ==
  CASE o = "throw" ->
         [status |-> 500, message |-> << "An error occurred" >>]
    [] o = "no choice" -> [status |-> 200, message |-> << >>]
    [] OTHER -> [status |-> 200, message |-> Completion(sent)]

ChatInit ==
  /\ conversationHistory = << >>
  /\ chat = [i \in Slots |-> IdleChat]

ChatOnly == UNCHANGED << progressVars, usersVars, auth, quizVars, speech >>

\* part_000:87-99  up to the await of the vendor call
ChatReceive(i) ==
  /\ chat[i].pc = "idle"
  /\ \A j \in Slots : j < i => chat[j].pc # "idle"
  /\ \E c \in ChatBodies :
       LET history == Appended(conversationHistory, Messages(c))
       IN /\ conversationHistory' = history
          /\ chat' = [chat EXCEPT ![i] =
                        [IdleChat EXCEPT !.pc = "vendor", !.conversation = c,
                                         !.sent = VendorMessages(history)]]
  /\ ChatOnly

\* part_000:99-105  the vendor call returns or rejects
ChatReturn(i) ==
  /\ chat[i].pc = "vendor"
  /\ \E o \in ChatOutcomes :
       chat' = [chat EXCEPT ![i].pc = "done",
                            ![i].response = << ChatAnswer(o, chat[i].sent) >>]
  /\ UNCHANGED conversationHistory
  /\ ChatOnly

ChatNext == \E i \in Slots : ChatReceive(i) \/ ChatReturn(i)

InitChat ==
  /\ ChatInit
  /\ ProgressIdle /\ UsersIdle /\ AuthIdle /\ QuizIdle /\ SpeechIdle

SpecChat == InitChat /\ [][ChatNext]_vars

\* ======================================================================
\* part_002: POST /speech-to-text
\* ======================================================================
MaxRecognized == 2     \* recognized events of one recognition session

\* part_002:162-170  resolve and reject act on a pending promise only
Settle(promise, to) == IF promise = "pending" THEN to ELSE promise

SpeechInit == speech = [i \in Slots |-> IdleSpeech]

SpeechOnly == UNCHANGED << progressVars, usersVars, auth, quizVars, chatVars >>

\* part_002:79-98  up to the await of axios.post
SpeechReceive(i) ==
  /\ speech[i].pc = "idle"
  /\ \A j \in Slots : j < i => speech[j].pc # "idle"
  /\ speech' = [speech EXCEPT ![i].pc = "axios"]
  /\ SpeechOnly

\* part_002:89-110, 120-123, 131-150, 180  axios.post rejects, or it returns and
\* the handler starts the recognizer and awaits the promise; an exception
\* in the executor rejects the promise
SpeechAxiosReturn(i) ==
  /\ speech[i].pc = "axios"
  /\ \/ speech' = [speech EXCEPT ![i].pc = "done",
          ![i].response = << Reply(500, "Internal Server Error") >>]
     \/ speech' = [speech EXCEPT ![i].pc = "assess",
          ![i].promise = "pending", ![i].session = "running"]
     \/ speech' = [speech EXCEPT ![i].pc = "assess",
          ![i].promise = "rejected", ![i].session = "none"]
  /\ SpeechOnly

\* part_002:152-166  recognizer.recognized
Recognized(i) ==
  /\ speech[i].session = "running"
  /\ speech[i].recognized < MaxRecognized
  /\ \E reason \in {"RecognizedSpeech", "NoMatch"} :
       speech' = [speech EXCEPT
         ![i].recognized = @ + 1,
         ![i].promise = Settle(@, IF reason = "RecognizedSpeech"
                                  THEN "resolved" ELSE "rejected")]
  /\ SpeechOnly

\* part_002:168-173  recognizer.canceled
Canceled(i) ==
  /\ speech[i].session = "running"
  /\ \E reason \in {"Error", "EndOfStream"} :
       speech' = [speech EXCEPT
         ![i].session = "canceled",
         ![i].promise = IF reason = "Error" THEN Settle(@, "rejected") ELSE @]
  /\ SpeechOnly

\* part_002:175-178  recognizer.sessionStopped: the recognizer is closed
SessionStopped(i) ==
  /\ speech[i].session = "canceled"
  /\ speech' = [speech EXCEPT ![i].session = "stopped"]
  /\ SpeechOnly

\* part_002:107-123  the awaited promise is settled: the handler answers
SpeechAnswer(i) ==
  /\ speech[i].pc = "assess"
  /\ speech[i].promise \in {"resolved", "rejected"}
  /\ speech' = [speech EXCEPT ![i].pc = "done",
       ![i].response =
         << IF speech[i].promise = "resolved"
            THEN Reply(200, "pronunciationScores")
            ELSE Reply(500, "Internal Server Error") >>]
  /\ SpeechOnly

SpeechNext ==
  \E i \in Slots :
    \/ SpeechReceive(i)
    \/ SpeechAxiosReturn(i)
    \/ Recognized(i)
    \/ Canceled(i)
    \/ SessionStopped(i)
    \/ SpeechAnswer(i)

InitSpeech ==
  /\ SpeechInit
  /\ ProgressIdle /\ UsersIdle /\ AuthIdle /\ QuizIdle /\ ChatIdle

\* the event loop runs every callback that is due, and the recognizer
\* delivers the events of a session it has started
SpecSpeech == InitSpeech /\ [][SpeechNext]_vars /\ WF_vars(SpeechNext)

\* ======================================================================
\* Properties
\* ======================================================================
Records(table, u, p) == { r \in table : r.user_id = u /\ r.item_id = p }

Quiescent == \A i \in Slots : pc[i] \in {"idle", "done"}

Answer(i) == response[i][Len(response[i])]

ClientError(r) == r.status >= 400 /\ r.status < 500

\* the request of slot i has gone through its update and matched no row
ZeroRowUpdate(i) ==
  /\ pc[i] \in {"rpc", "done"} /\ nUpdate[i] = 1
  /\ wrote[i] = "ok" /\ progress[i] = {}

\* slot i's write returns in this step
WriteReturns(i) == pc[i] = "write" /\ pc'[i] # "write"

\* ---------------------------------------------------------------- C1
\* every call made so far was for the pair k and had its write accepted
OnlyAcceptedCallsFor(k) ==
  \A i \in Slots :
    pc[i] # "idle" =>
      /\ body[i].user_id = k[1] /\ body[i].item_id = k[2]
      /\ wrote[i] = "ok"

C2_OwnershipGuard ==
  [][\A i \in Slots :
       WriteReturns(i) =>
         /\ \A r \in practiceTable :
              r.user_id # body[i].user_id => r \in practiceTable'
         /\ \A r \in courseTable :
              r.user_id # body[i].user_id => r \in courseTable']_vars

\* an update went through that named the record of another user
C2_Witness ==
  \E i \in Slots :
    /\ pc[i] \in {"rpc", "done"} /\ nUpdate[i] = 1 /\ wrote[i] = "ok"
    /\ \E r \in practiceTable \cup courseTable :
         /\ r.id = body[i].progress_id
         /\ body[i].user_id \in Users /\ r.user_id # body[i].user_id
         /\ r.progress_poin # body[i].progress_poin

\* ---------------------------------------------------------------- C3
\* C3: a practice-progress update that matched no row is answered with a
\* client error, not with a success.
C3_ZeroRowsIsClientError ==
  \A i \in Slots :
    kind[i] = "practice" /\ pc[i] = "done" /\ ZeroRowUpdate(i)
      => ClientError(Answer(i))

\* ---------------------------------------------------------------- C4
\* C4: a practice-progress update that matched no row of the user invokes
\* no recompute procedure.
C4_ZeroRowsNoRecompute ==
  \A i \in Slots :
    kind[i] = "practice" /\ ZeroRowUpdate(i) => rpcCalls[i] = << >>

\* ---------------------------------------------------------------- C5
\* C5: a practice-progress request whose insert or update succeeded has
\* issued exactly one recompute call, carrying the request's user_id; no
\* request issues more than one.
C5_OneRecomputePerWrite ==
  \A i \in Slots :
    kind[i] = "practice" =>
      /\ Len(rpcCalls[i]) <= 1
      /\ wrote[i] = "ok" =>
           /\ Len(rpcCalls[i]) = 1
           /\ rpcCalls[i][1].i_user_id = body[i].user_id

\* an update that rewrote a row was answered 200 after its one recompute
C5_Witness ==
  \E i \in Slots :
    /\ kind[i] = "practice" /\ pc[i] = "done" /\ nUpdate[i] = 1
    /\ wrote[i] = "ok" /\ progress[i] # {}
    /\ Len(rpcCalls[i]) = 1 /\ rpcCalls[i][1].i_user_id = 2
    /\ Answer(i).status = 200

\* ---------------------------------------------------------------- C6
\* C6: a course-progress request whose insert or update succeeded has
\* issued exactly one recompute call for its user.
C6_CourseRecompute ==
  \A i \in Slots :
    kind[i] = "course" /\ pc[i] = "done" /\ wrote[i] = "ok"
      => /\ Len(rpcCalls[i]) = 1
         /\ rpcCalls[i][1].i_user_id = body[i].user_id

\* ---------------------------------------------------------------- C7
\* C7: when the recompute call fails after a successful write, the request
\* is still answered with the written record as a success, and the record
\* stays written.
C7_RecomputeFailureIsSuccess ==
  \A i \in Slots :
    kind[i] = "practice" /\ pc[i] = "done" /\ wrote[i] = "ok"
    /\ rpcResult[i] \in {"error", "throw"}
      => response[i] = << Succeeded(progress[i]) >>

\* ---------------------------------------------------------------- C8
\* C8: the recompute call of a request is issued only once the write of the
\* same request has returned without error; none is issued while the write
\* is pending or after it failed.
C8_WriteThenRecompute ==
  \A i \in Slots :
    /\ rpcCalls[i] # << >> => wrote[i] = "ok"
    /\ pc[i] = "rpc" => wrote[i] = "ok"

\* one request awaits its recompute after an accepted write while another
\* was answered after a failed write without any recompute
C8_Witness ==
  \E i, j \in Slots :
    /\ kind[i] = "practice" /\ pc[i] = "rpc" /\ wrote[i] = "ok"
    /\ Len(rpcCalls[i]) = 1
    /\ kind[j] = "practice" /\ pc[j] = "done" /\ wrote[j] = "error"
    /\ rpcCalls[j] = << >>

\* ---------------------------------------------------------------- C9
\* C9: a practice-progress event without user_id or without practice_id
\* reaches no store call (no insert, update or procedure call) and is
\* answered with a client error.
C9_ValidationBeforeStore ==
  \A i \in Slots :
    kind[i] = "practice"
    /\ (body[i].user_id = Undefined \/ body[i].item_id = Undefined)
      => /\ nInsert[i] + nUpdate[i] = 0
         /\ rpcCalls[i] = << >>
         /\ pc[i] = "done" => ClientError(Answer(i))

\* ---------------------------------------------------------------- C10
\* C10: a practice-progress request whose insert or update failed is
\* answered once, with status 500, and no request issues more than one
\* write.
C10_WriteFailureIs500 ==
  \A i \in Slots :
    kind[i] = "practice" =>
      /\ nInsert[i] + nUpdate[i] <= 1
      /\ pc[i] = "done" /\ wrote[i] \in {"error", "throw"}
           => /\ Len(response[i]) = 1
              /\ Answer(i).status = 500

\* an insert the store refused was answered 500 after its single attempt
C10_Witness ==
  \E i \in Slots :
    /\ kind[i] = "practice" /\ pc[i] = "done"
    /\ nInsert[i] = 1 /\ nUpdate[i] = 0 /\ wrote[i] = "error"
    /\ response[i] = << Failed("Failed to insert new record") >>

\* ---------------------------------------------------------------- C11
\* C11: a progress request (practice or course) whose recordId is the
\* sentinel 0 or is missing altogether issues an insert and no update, a
\* request whose recordId is a real identity issues an update and no insert,
\* and the record an accepted insert returns carries the request's user_id,
\* item id, progress_poin, is_active and completion flag.
C11_BranchOnRecordId ==
  \A i \in Slots :
    kind[i] \in {"practice", "course"} /\ pc[i] # "idle" =>
      /\ body[i].progress_id \in {0, Undefined}
           => nInsert[i] = 1 /\ nUpdate[i] = 0
      /\ body[i].progress_id \notin {0, Undefined}
           => nInsert[i] = 0 /\ nUpdate[i] = 1
      /\ nInsert[i] = 1 /\ wrote[i] = "ok" =>
           \A r \in progress[i] :
             /\ r.user_id = Column(body[i].user_id)
             /\ r.item_id = Column(body[i].item_id)
             /\ r.progress_poin = body[i].progress_poin
             /\ r.is_active = body[i].is_active
             /\ r.is_done = body[i].is_done

\* ---------------------------------------------------------------- C12
\* C12: every progress request issues exactly one write to the store, one
\* insert or one update and never both (no request is turned away before
\* the store), and the stored records change only in the step in which the
\* write of some request returns.
C12_ExactlyOneWrite ==
  /\ [](\A i \in Slots : pc[i] # "idle" => nInsert[i] + nUpdate[i] = 1)
  /\ [][storeVars' # storeVars => \E i \in Slots : WriteReturns(i)]_vars

\* one practice request was answered after its one insert, another after
\* its one update
C12_Witness ==
  \E i, j \in Slots :
    /\ kind[i] = "practice" /\ kind[j] = "practice"
    /\ pc[i] = "done" /\ pc[j] = "done"
    /\ wrote[i] = "ok" /\ wrote[j] = "ok"
    /\ nInsert[i] = 1 /\ nUpdate[i] = 0
    /\ nInsert[j] = 0 /\ nUpdate[j] = 1 /\ progress[j] # {}

\* ---------------------------------------------------------------- C13
\* the stored row a returned row was selected from
StoredAs(table, r) == { s \in table : Select({s}) = {r} }

\* two practice requests with one and the same body, naming a record
\* (recordId not the sentinel), both gone through their write
SameUpdateTwice(i, j) ==
  /\ i # j /\ kind[i] = "practice" /\ kind[j] = "practice"
  /\ body[i] = body[j] /\ body[i].progress_id # 0
  /\ pc[i] \in {"rpc", "done"} /\ pc[j] \in {"rpc", "done"}
  /\ wrote[i] = "ok" /\ wrote[j] = "ok"

\* C13: two practice-progress requests with the same recordId, user_id and
\* identical field values return the same rows (recordId, user, item,
\* progress_poin, is_active, is_passed), the stored record carries those
\* values, and neither request adds a record: only updated_at may differ.
C13_IdempotentShape ==
  /\ [](\A i, j \in Slots :
          SameUpdateTwice(i, j) =>
            /\ progress[i] = progress[j]
            /\ \A r \in progress[i] : StoredAs(practiceTable, r) # {})
  /\ [][\A i \in Slots :
          WriteReturns(i) /\ kind[i] = "practice" /\ body[i].progress_id # 0
            => { r.id : r \in practiceTable' } = { r.id : r \in practiceTable }]_vars

\* the same update of record 1 went through twice, the requests having read
\* different clock values: both returned the one rewritten row
C13_Witness ==
  \E i, j \in Slots :
    /\ SameUpdateTwice(i, j) /\ pc[i] = "done" /\ pc[j] = "done"
    /\ currentTimestamp[i] # currentTimestamp[j]
    /\ body[i].progress_poin = 40
    /\ Cardinality(progress[i]) = 1 /\ progress[j] = progress[i]
    /\ \E s \in practiceTable :
         /\ s.id = body[i].progress_id /\ s.progress_poin = 40
         /\ s.updated_at \in {currentTimestamp[i], currentTimestamp[j]}
    /\ Cardinality(practiceTable) = practiceSeq

\* ---------------------------------------------------------------- C14
\* C14: the update of a progress request (practice or course) leaves the
\* recordId, user_id and item id of every stored record as they were, and
\* leaves no (user, item) pair with two records that had one before.
C14_UpdateKeepsIdentity ==
  [][\A i \in Slots :
       WriteReturns(i) /\ nUpdate[i] = 1 =>
         /\ \A r \in practiceTable \cup courseTable :
              \E s \in practiceTable' \cup courseTable' :
                s.id = r.id /\ s.user_id = r.user_id /\ s.item_id = r.item_id
         /\ Duplicates(practiceTable') => Duplicates(practiceTable)
         /\ Duplicates(courseTable') => Duplicates(courseTable)]_vars

\* ---------------------------------------------------------------- C15
\* C15: the rows a practice-progress request gets back from an accepted
\* write are the stored rows as the write left them: an insert returns one
\* row under the identity the store has just assigned, an update returns
\* rows under the request's recordId, and each returned row equals the
\* stored one; the 200 answer carries exactly these rows.
C15_OutputIsPersistedRecord ==
  /\ [][\A i \in Slots :
          WriteReturns(i) /\ kind[i] = "practice" /\ wrote'[i] = "ok" =>
            /\ \A r \in progress'[i] : StoredAs(practiceTable', r) # {}
            /\ nInsert[i] = 1 =>
                 /\ Cardinality(progress'[i]) = 1
                 /\ \A r \in progress'[i] :
                      /\ r.id = practiceSeq'
                      /\ r.id \notin { s.id : s \in practiceTable }
            /\ nUpdate[i] = 1 =>
                 \A r \in progress'[i] : r.id = body[i].progress_id]_vars
  /\ [](\A i \in Slots :
          kind[i] = "practice" /\ pc[i] = "done" /\ Answer(i).status = 200
            => Answer(i).body = progress[i])

\* the stored record 1 with 10 points was updated to 40 points and
\* completed: the 200 answer and the store both show 40 and completed
C15_Witness ==
  \E i \in Slots :
    /\ kind[i] = "practice" /\ pc[i] = "done" /\ nUpdate[i] = 1
    /\ pc[3 - i] = "idle"
    /\ SeedRow(1).progress_poin = 10 /\ body[i].progress_poin = 40
    /\ Answer(i).status = 200
    /\ \E r \in Answer(i).body :
         /\ r.id = 1 /\ r.progress_poin = 40 /\ r.is_done
         /\ \E s \in practiceTable :
              s.id = 1 /\ s.progress_poin = 40 /\ s.is_done

\* ---------------------------------------------------------------- C16
\* C16: an accepted practice-progress write stores the request's
\* progress_poin as it came, whatever value was stored before, in every row
\* it writes, and leaves every other row alone.
C16_PointValueAsGiven ==
  [][\A i \in Slots :
       WriteReturns(i) /\ kind[i] = "practice" /\ wrote'[i] = "ok" =>
         \A s \in practiceTable' :
           IF s.id \in { r.id : r \in progress'[i] }
           THEN s.progress_poin = body[i].progress_poin
           ELSE s \in practiceTable]_vars

\* record 1 was updated to 40 points by one request and then to 10 points
\* by another: the store holds 10
C16_Witness ==
  \E i, j \in Slots :
    /\ kind[i] = "practice" /\ kind[j] = "practice"
    /\ nUpdate[i] = 1 /\ nUpdate[j] = 1
    /\ wrote[i] = "ok" /\ wrote[j] = "ok"
    /\ body[i].progress_poin = 40 /\ body[j].progress_poin = 10
    /\ \E r \in progress[i] : r.id = 1 /\ r.progress_poin = 40
    /\ \E r \in progress[j] : r.id = 1 /\ r.progress_poin = 10
    /\ \E s \in practiceTable : s.id = 1 /\ s.progress_poin = 10

\* ---------------------------------------------------------------- C17
\* progress_poin, is_active, is_passed and updated_at a request sends
Sent(i) == << body[i].progress_poin, body[i].is_active, body[i].is_done,
              currentTimestamp[i] >>

Stored(s) == << s.progress_poin, s.is_active, s.is_done, s.updated_at >>

\* slot i's accepted practice update rewrote record id of user u
UpdateCommitted(i, id, u) ==
  /\ kind[i] = "practice" /\ nUpdate[i] = 1 /\ wrote[i] = "ok"
  /\ body[i].progress_id = id /\ body[i].user_id = u
  /\ progress[i] # {}

\* C17: every accepted practice update leaves the record it names with
\* progress_poin, is_active, is_passed and updated_at all as that request
\* sent them, so the record holds the four values of the update that
\* committed last; after two updates of one record the stored four values
\* are those of one of the two requests, never a mixture.
C17_LastWriterWins ==
  /\ [][\A i \in Slots :
          WriteReturns(i) /\ kind[i] = "practice" /\ nUpdate[i] = 1
          /\ wrote'[i] = "ok" =>
            \A s \in practiceTable' :
              s.id = body[i].progress_id /\ s.user_id = body[i].user_id
                => Stored(s) = Sent(i)]_vars
  /\ [](\A i, j \in Slots : \A s \in practiceTable :
          /\ i # j
          /\ UpdateCommitted(i, s.id, s.user_id)
          /\ UpdateCommitted(j, s.id, s.user_id)
          => Stored(s) \in { Sent(i), Sent(j) })

\* two updates of record 1 with different values were in flight together;
\* the one that read the clock first committed last and the record holds
\* its four values, the earlier timestamp included
C17_Witness ==
  \E i, j \in Slots : \E s \in practiceTable :
    /\ UpdateCommitted(i, s.id, s.user_id)
    /\ UpdateCommitted(j, s.id, s.user_id)
    /\ currentTimestamp[i] < currentTimestamp[j]
    /\ body[i].progress_poin # body[j].progress_poin
    /\ Stored(s) = Sent(i)

\* ---------------------------------------------------------------- C18
\* slot i carries a practice create (recordId 0) for the pair k
CreateFor(i, k) ==
  /\ kind[i] = "practice" /\ pc[i] # "idle" /\ body[i].progress_id = 0
  /\ body[i].user_id = k[1] /\ body[i].item_id = k[2]

RecordIdsOf(table) == { r.id : r \in table }

\* C19: no step of a progress request (practice or course, either course
\* variant) removes a record: every recordId stored before the step is
\* stored after it, under the same user.
C19_NeverDeletes ==
  [][/\ \A r \in practiceTable :
          \E s \in practiceTable' : s.id = r.id /\ s.user_id = r.user_id
     /\ \A r \in courseTable :
          \E s \in courseTable' : s.id = r.id /\ s.user_id = r.user_id]_vars

\* the course table held record 1; one request rewrote it and another
\* added record 2: both are stored
C19_Witness ==
  \E i, j \in Slots :
    /\ kind[i] = "course" /\ kind[j] = "course"
    /\ pc[i] = "done" /\ pc[j] = "done"
    /\ wrote[i] = "ok" /\ wrote[j] = "ok"
    /\ nUpdate[i] = 1 /\ body[i].progress_id = 1 /\ progress[i] # {}
    /\ body[i].progress_poin = 40
    /\ nInsert[j] = 1 /\ body[j].user_id = 1 /\ body[j].item_id = 1
    /\ RecordIdsOf(courseTable) = {1, 2}
    /\ \E s \in courseTable : s.id = 1 /\ s.updated_at = currentTimestamp[i]

C28_ExactlyOneResponse ==
  \A i \in Slots :
    kind[i] = "practice" =>
      /\ pc[i] \in {"write", "rpc"} => response[i] = << >>
      /\ pc[i] = "done" => Len(response[i]) = 1
      /\ wrote[i] \in {"error", "throw"} =>
           /\ pc[i] = "done" /\ Answer(i).status = 500
           /\ rpcCalls[i] = << >>

\* one request was answered 500 once after its refused update, without a
\* recompute call; the other was answered 500 once after its recompute
\* call rejected
C28_Witness ==
  \E i, j \in Slots :
    /\ kind[i] = "practice" /\ kind[j] = "practice"
    /\ pc[i] = "done" /\ pc[j] = "done"
    /\ nUpdate[i] = 1 /\ wrote[i] = "error" /\ rpcCalls[i] = << >>
    /\ response[i] = << Failed("Failed to update the record") >>
    /\ wrote[j] = "ok" /\ rpcResult[j] = "throw" /\ Len(rpcCalls[j]) = 1
    /\ response[j] = << Failed("Internal server error") >>

\* ======================================================================
\* Properties of the users handlers
\* ======================================================================
UsrAnswer(i) == usr[i].response[1]

UsrAnswered(i, status) ==
  usr[i].pc = "done" /\ UsrAnswer(i).status = status

\* ---------------------------------------------------------------- C21
\* C21, read in its favour (no select of a signup request returned an
\* error): after signup requests in any order or interleaving, m_users
\* holds at most one row per email.
C21_OneUserPerEmail ==
  usersRoute = "signup" /\ (\A i \in Slots : ~usr[i].isNull)
    => ~EmailDuplicates(m_users)

\* ---------------------------------------------------------------- C23
\* C23: a signin request is answered 200 exactly when it is answered with a
\* token, and then the row its select returned carries the request's email,
\* is verified and holds the hash of the request's password; m_users
\* changes only by the update of a request that has passed these checks,
\* and only in user_last_login.
C23_TokenOnlyAfterChecks ==
  /\ [](usersRoute = "signin" =>
          \A i \in Slots :
            /\ usr[i].pc = "done" =>
                 (UsrAnswer(i).status = 200 <=> UsrAnswer(i).token # << >>)
            /\ usr[i].pc = "update" \/ UsrAnswered(i, 200) =>
                 \A user \in usr[i].data :
                   /\ user.email = usr[i].body.email
                   /\ user.fgVerified
                   /\ user.password = Hash(usr[i].body.password))
  /\ [][usersRoute = "signin" /\ m_users' # m_users =>
          /\ \E i \in Slots : usr[i].pc = "update" /\ UsrAnswered(i, 200)'
          /\ { [r EXCEPT !.user_last_login = "x"] : r \in m_users' }
               = { [r EXCEPT !.user_last_login = "x"] : r \in m_users }]_vars

\* a verified user signed in with the right password, got a token and a
\* new user_last_login; a request with the wrong password got 403
C23_Witness ==
  /\ usersRoute = "signin"
  /\ \E i, j \in Slots :
       /\ UsrAnswered(i, 200) /\ UsrAnswer(i).token = << JwtSign(Undefined) >>
       /\ usr[i].wrote = "ok"
       /\ \E r \in m_users :
            r.email = usr[i].body.email /\ r.user_last_login = "today"
       /\ UsrAnswered(j, 403) /\ usr[j].data # {} /\ ~usr[j].passwordMatch
       /\ UsrAnswer(j).token = << >>

\* ---------------------------------------------------------------- C25
\* C25: a users update that matched no row is answered 404, and one
\* answered 200 has rewritten a row.
C25_NoMatchIs404 ==
  \A i \in Slots :
    usersRoute = "update" /\ usr[i].pc = "done" /\ usr[i].wrote = "ok" =>
      /\ usr[i].data = {} => UsrAnswer(i).status = 404
      /\ UsrAnswer(i).status = 200 => usr[i].data # {}

\* ---------------------------------------------------------------- C29
\* C29: a signup request issues at most one insert_user_progress call, and
\* exactly one once its insert was accepted, with the user_id of the row
\* that insert stored for the request's email; a request answered 400 as a
\* duplicate has issued no insert and no call; a request whose insert
\* failed is answered 500 and has issued no call.
C29_ProgressRowAfterInsert ==
  usersRoute = "signup" =>
    \A i \in Slots :
      /\ Len(usr[i].rpcCalls) <= 1
      /\ usr[i].wrote = "ok" <=> Len(usr[i].rpcCalls) = 1
      /\ usr[i].rpcCalls # << >> =>
           \E r \in m_users :
             /\ r.user_id = usr[i].rpcCalls[1].i_user_id
             /\ r.email = usr[i].body.email
             /\ usr[i].data = {r}
      /\ UsrAnswered(i, 400) =>
           usr[i].wrote = "none" /\ usr[i].rpcCalls = << >>
      /\ usr[i].wrote \in {"error", "throw"} =>
           UsrAnswered(i, 500) /\ usr[i].rpcCalls = << >>

\* one signup stored user 1 and was answered 200 after its one call for
\* user 1; another for the same email had its insert refused and was
\* answered 500 without a call
C29_Witness ==
  /\ usersRoute = "signup"
  /\ \E i, j \in Slots :
       /\ UsrAnswered(i, 200) /\ usr[i].wrote = "ok"
       /\ usr[i].rpcCalls = << [i_user_id |-> 1] >>
       /\ \E r \in m_users : r.user_id = 1 /\ r.email = usr[i].body.email
       /\ usr[j].body.email = usr[i].body.email
       /\ UsrAnswered(j, 500) /\ usr[j].wrote = "error"
       /\ usr[j].rpcCalls = << >>

\* ----------------------------------------------------------------------
\* Properties of verifyToken
\* ----------------------------------------------------------------------
AuthStatus(i) == auth[i].response[1].status

\* C22: a request without an Authorization header is answered 401, one
\* whose token does not verify is answered 403, and in both cases next()
\* is not called; a request with a valid Bearer token gets exactly one
\* call of next() and no response from the middleware.
C22_NextOnlyForVerifiedToken ==
  \A i \in Slots :
    auth[i].pc = "done" =>
      LET h == auth[i].authorization
      IN /\ auth[i].nextCalls \in {0, 1}
         /\ (auth[i].nextCalls = 1) = (auth[i].response = << >>)
         /\ auth[i].nextCalls = 1 =>
              \E k \in 1..Len(h.words) :
                /\ TokenOf(h.words[k]).jwt
                /\ TokenOf(h.words[k]).key = "JWT_SECRET"
                /\ ~TokenOf(h.words[k]).expired
         /\ ~h.present => auth[i].nextCalls = 0 /\ AuthStatus(i) = 401
         /\ (h.present /\ auth[i].nextCalls = 0 /\ h.words # << "" >>) =>
              AuthStatus(i) = 403
         /\ h = Header(<< "Bearer", "good" >>) => auth[i].nextCalls = 1

C22_Witness ==
  /\ auth[1].pc = "done" /\ auth[1].authorization = Header(<< "Bearer", "expired" >>)
  /\ AuthStatus(1) = 403 /\ auth[1].nextCalls = 0
  /\ auth[2].pc = "done" /\ auth[2].authorization = Header(<< "Bearer", "good" >>)
  /\ auth[2].nextCalls = 1 /\ auth[2].response = << >>

\* ----------------------------------------------------------------------
\* Properties of the quiz delete handler
\* ----------------------------------------------------------------------
\* C24: whenever the delete handler answers 200 "Quiz deleted
\* successfully.", no row of m_quiz has the quiz_id given in the path.
C24_DeletedWhenAnswered200 ==
  \A i \in Slots :
    (quiz[i].pc = "done" /\ quiz[i].response[1].status = 200) =>
      \A r \in m_quiz : r.quiz_id # quiz[i].id

\* ----------------------------------------------------------------------
\* Properties of the chat handler
\* ----------------------------------------------------------------------
IsPrefix(s, t) == Len(s) <= Len(t) /\ SubSeq(t, 1, Len(s)) = s

\* the messages of the requests handled so far, in the order of handling
\* (slots are taken in order)
RECURSIVE MessagesUpTo(_)
MessagesUpTo(i) ==
  IF i = 0 THEN << >>
  ELSE IF chat[i].pc = "idle" THEN MessagesUpTo(i - 1)
  ELSE MessagesUpTo(i - 1) \o Messages(chat[i].conversation)

HistoryIsAllMessages ==
  /\ conversationHistory = MessagesUpTo(2)
  /\ \A i \in Slots :
       chat[i].pc # "idle" =>
         chat[i].sent = SystemPrompts \o MessagesUpTo(i)

\* C26: the conversation history is shared by all requests and holds the
\* messages of every request handled so far in the order of handling,
\* whatever became of the vendor call; the vendor is sent the system
\* messages, then every earlier request's messages, then this request's;
\* and no step takes a message out of the history.
C26_SharedAppendOnlyHistory ==
  /\ []HistoryIsAllMessages
  /\ [][IsPrefix(conversationHistory, conversationHistory')]_vars

C26_Witness ==
  /\ chat[1].pc = "done" /\ chat[1].response[1].status = 500
  /\ chat[2].pc = "done" /\ chat[2].response[1].status = 200
  /\ Messages(chat[1].conversation) # << >>
  /\ chat[2].sent =
       SystemPrompts \o Messages(chat[1].conversation)
                     \o Messages(chat[2].conversation)
  /\ chat[2].response[1].message = Completion(chat[2].sent)

\* ----------------------------------------------------------------------
\* Properties of the speech-to-text handler
\* ----------------------------------------------------------------------
\* C27: every speech-to-text request that was received is eventually
\* answered.
C27_EveryRequestAnswered ==
  \A i \in Slots : (speech[i].pc # "idle") ~> (speech[i].pc = "done")

====
